---- MODULE Spec2Model ----
(***************************************************************************)
(* Model of the IoT house simulator (repository 0xGeN02/iot_house).        *)
(*                                                                         *)
(* The repository holds three variants of one program:                     *)
(*   simulador_casa          terminal loop (main, time.sleep)              *)
(*   mapa_simulacion_casa    Tk floor plan, self-rescheduling callback     *)
(*   interactivo_mapa_casa   Tk floor plan with the manual control panel   *)
(* Each variant carries its own copy of the sink (write_to_influx), of the *)
(* synthesizer (the simulate functions) and of the reporter loop.           *)
(*                                                                         *)
(* Numbers.  Python floats are modelled in fixed point, in thousandths     *)
(* ("milli"): 21.3 is 21300.  The hour of day (now.hour + now.minute/60)   *)
(* is carried as the minute of the day, hour * 60.  A value of             *)
(* random.random() is an integer u in 0..999 standing for u/1000.          *)
(***************************************************************************)
EXTENDS Integers, Sequences, FiniteSets, TLC

VARIABLES
    variant,    \* which of the three programs runs
    cfg,        \* INFLUX_URL, INFLUX_TOKEN, INFLUX_ORG, INFLUX_BUCKET: set (truthy) or not
    pc,         \* position of the reporter (main loop or Tk callback)
    pending,    \* Tk: number of update_simulation callbacks queued by root.after
    mode,       \* interactivo_mapa_casa: self.mode, "auto" or "manual"
    manual,     \* interactivo_mapa_casa: the values of the manual controls per room
    now,        \* the instant captured by the running cycle (minute of day)
    readings,   \* the batch returned by simulate_house_once
    i,          \* index in readings of the Reading being reported
    k,          \* index of the next metric of that Reading (1..4)
    nCalls,     \* calls of write_to_influx issued by the running cycle
    nPosts,     \* calls of requests.post issued by the running cycle
    lastCall,   \* what the most recent call of write_to_influx did
    failSeen,   \* some write of the running cycle met a transport failure
    slow,       \* some write of the running cycle ran into its timeout (>= the period)
    probe       \* the last application of a pure function (ProbeSpec)

vars == << variant, cfg, pc, pending, mode, manual, now, readings, i, k, nCalls,
           nPosts, lastCall, failSeen, slow, probe >>

-----------------------------------------------------------------------------
(* The three programs *)

SIMULADOR == "simulador_casa"
MAPA == "mapa_simulacion_casa"
INTERACTIVO == "interactivo_mapa_casa"

Variants == {SIMULADOR, MAPA, INTERACTIVO}

IsGUI(v) == v \in {MAPA, INTERACTIVO}

-----------------------------------------------------------------------------
(* Room model *)

ROOMS == << "salon", "dormitorio", "cocina", "bano" >>

RoomSet == {ROOMS[n] : n \in 1..Len(ROOMS)}

\* room_offset of simulador_casa.simulate_temperature, in milli degrees
room_offset_simulador(room) ==
    CASE room = "salon" -> -1500
      [] room = "dormitorio" -> 1500
      [] room = "cocina" -> 3500
      [] room = "bano" -> -4500
      [] OTHER -> 0

\* room_offset of simulate_temperature in the two GUI variants
room_offset_gui(room) ==
    CASE room = "salon" -> 1000
      [] room = "dormitorio" -> -500
      [] room = "cocina" -> 1500
      [] room = "bano" -> 0
      [] OTHER -> 0

\* room_offset of variant v
room_offset(v, room) ==
    IF v = SIMULADOR THEN room_offset_simulador(room) ELSE room_offset_gui(room)

\* the factor of math.sin in base_daily
Amplitude(v) == IF v = SIMULADOR THEN 2 ELSE 4

\* base_power of simulate_power_usage, in watts
base_power(room) ==
    CASE room = "salon" -> 60
      [] room = "dormitorio" -> 20
      [] room = "cocina" -> 80
      [] room = "bano" -> 10
      [] OTHER -> 20

\* the lists random.choice draws the peak from
PeakChoices(room) ==
    CASE room = "cocina" -> << 500, 800, 1200 >>
      [] room = "bano" -> << 600, 900 >>
      [] OTHER -> << >>

\* the threshold random.random() is compared with before a peak, in 1/1000
PeakProb(room) ==
    CASE room = "cocina" -> 100
      [] room = "bano" -> 50
      [] OTHER -> 0

\* valores of simulador_casa.simulate_water_flow, in milli L/min
valores == << 0, 1500, 2400, 3700, 5000, 7300, 8800, 10100, 11600 >>

-----------------------------------------------------------------------------
(* Arithmetic of the synthesizer *)

\* 1000 * math.sin(2 * math.pi * (hour - 14) / 24), rounded to an integer,
\* for hour = m / 60 and m = 0 .. 1439 (entry m + 1)
SinTable == <<
    500, 496, 492, 489, 485, 481, 477, 473, 469, 466, 462, 458, 454, 450, 446, 442, 438, 434, 431, 427,
    423, 419, 415, 411, 407, 403, 399, 395, 391, 387, 383, 379, 375, 371, 367, 362, 358, 354, 350, 346,
    342, 338, 334, 330, 326, 321, 317, 313, 309, 305, 301, 297, 292, 288, 284, 280, 276, 271, 267, 263,
    259, 255, 250, 246, 242, 238, 233, 229, 225, 221, 216, 212, 208, 204, 199, 195, 191, 187, 182, 178,
    174, 169, 165, 161, 156, 152, 148, 143, 139, 135, 131, 126, 122, 118, 113, 109, 105, 100, 96, 92,
    87, 83, 78, 74, 70, 65, 61, 57, 52, 48, 44, 39, 35, 31, 26, 22, 17, 13, 9, 4,
    0, -4, -9, -13, -17, -22, -26, -31, -35, -39, -44, -48, -52, -57, -61, -65, -70, -74, -78, -83,
    -87, -92, -96, -100, -105, -109, -113, -118, -122, -126, -131, -135, -139, -143, -148, -152, -156, -161, -165, -169,
    -174, -178, -182, -187, -191, -195, -199, -204, -208, -212, -216, -221, -225, -229, -233, -238, -242, -246, -250, -255,
    -259, -263, -267, -271, -276, -280, -284, -288, -292, -297, -301, -305, -309, -313, -317, -321, -326, -330, -334, -338,
    -342, -346, -350, -354, -358, -362, -367, -371, -375, -379, -383, -387, -391, -395, -399, -403, -407, -411, -415, -419,
    -423, -427, -431, -434, -438, -442, -446, -450, -454, -458, -462, -466, -469, -473, -477, -481, -485, -489, -492, -496,
    -500, -504, -508, -511, -515, -519, -522, -526, -530, -534, -537, -541, -545, -548, -552, -556, -559, -563, -566, -570,
    -574, -577, -581, -584, -588, -591, -595, -598, -602, -605, -609, -612, -616, -619, -623, -626, -629, -633, -636, -639,
    -643, -646, -649, -653, -656, -659, -663, -666, -669, -672, -676, -679, -682, -685, -688, -692, -695, -698, -701, -704,
    -707, -710, -713, -716, -719, -722, -725, -728, -731, -734, -737, -740, -743, -746, -749, -752, -755, -758, -760, -763,
    -766, -769, -772, -774, -777, -780, -783, -785, -788, -791, -793, -796, -799, -801, -804, -806, -809, -812, -814, -817,
    -819, -822, -824, -827, -829, -831, -834, -836, -839, -841, -843, -846, -848, -850, -853, -855, -857, -859, -862, -864,
    -866, -868, -870, -872, -875, -877, -879, -881, -883, -885, -887, -889, -891, -893, -895, -897, -899, -901, -903, -904,
    -906, -908, -910, -912, -914, -915, -917, -919, -921, -922, -924, -926, -927, -929, -930, -932, -934, -935, -937, -938,
    -940, -941, -943, -944, -946, -947, -948, -950, -951, -952, -954, -955, -956, -958, -959, -960, -961, -962, -964, -965,
    -966, -967, -968, -969, -970, -971, -972, -973, -974, -975, -976, -977, -978, -979, -980, -981, -982, -982, -983, -984,
    -985, -986, -986, -987, -988, -988, -989, -990, -990, -991, -991, -992, -993, -993, -994, -994, -995, -995, -995, -996,
    -996, -997, -997, -997, -998, -998, -998, -998, -999, -999, -999, -999, -999, -1000, -1000, -1000, -1000, -1000, -1000, -1000,
    -1000, -1000, -1000, -1000, -1000, -1000, -1000, -1000, -999, -999, -999, -999, -999, -998, -998, -998, -998, -997, -997, -997,
    -996, -996, -995, -995, -995, -994, -994, -993, -993, -992, -991, -991, -990, -990, -989, -988, -988, -987, -986, -986,
    -985, -984, -983, -982, -982, -981, -980, -979, -978, -977, -976, -975, -974, -973, -972, -971, -970, -969, -968, -967,
    -966, -965, -964, -962, -961, -960, -959, -958, -956, -955, -954, -952, -951, -950, -948, -947, -946, -944, -943, -941,
    -940, -938, -937, -935, -934, -932, -930, -929, -927, -926, -924, -922, -921, -919, -917, -915, -914, -912, -910, -908,
    -906, -904, -903, -901, -899, -897, -895, -893, -891, -889, -887, -885, -883, -881, -879, -877, -875, -872, -870, -868,
    -866, -864, -862, -859, -857, -855, -853, -850, -848, -846, -843, -841, -839, -836, -834, -831, -829, -827, -824, -822,
    -819, -817, -814, -812, -809, -806, -804, -801, -799, -796, -793, -791, -788, -785, -783, -780, -777, -774, -772, -769,
    -766, -763, -760, -758, -755, -752, -749, -746, -743, -740, -737, -734, -731, -728, -725, -722, -719, -716, -713, -710,
    -707, -704, -701, -698, -695, -692, -688, -685, -682, -679, -676, -672, -669, -666, -663, -659, -656, -653, -649, -646,
    -643, -639, -636, -633, -629, -626, -623, -619, -616, -612, -609, -605, -602, -598, -595, -591, -588, -584, -581, -577,
    -574, -570, -566, -563, -559, -556, -552, -548, -545, -541, -537, -534, -530, -526, -522, -519, -515, -511, -508, -504,
    -500, -496, -492, -489, -485, -481, -477, -473, -469, -466, -462, -458, -454, -450, -446, -442, -438, -434, -431, -427,
    -423, -419, -415, -411, -407, -403, -399, -395, -391, -387, -383, -379, -375, -371, -367, -362, -358, -354, -350, -346,
    -342, -338, -334, -330, -326, -321, -317, -313, -309, -305, -301, -297, -292, -288, -284, -280, -276, -271, -267, -263,
    -259, -255, -250, -246, -242, -238, -233, -229, -225, -221, -216, -212, -208, -204, -199, -195, -191, -187, -182, -178,
    -174, -169, -165, -161, -156, -152, -148, -143, -139, -135, -131, -126, -122, -118, -113, -109, -105, -100, -96, -92,
    -87, -83, -78, -74, -70, -65, -61, -57, -52, -48, -44, -39, -35, -31, -26, -22, -17, -13, -9, -4,
    0, 4, 9, 13, 17, 22, 26, 31, 35, 39, 44, 48, 52, 57, 61, 65, 70, 74, 78, 83,
    87, 92, 96, 100, 105, 109, 113, 118, 122, 126, 131, 135, 139, 143, 148, 152, 156, 161, 165, 169,
    174, 178, 182, 187, 191, 195, 199, 204, 208, 212, 216, 221, 225, 229, 233, 238, 242, 246, 250, 255,
    259, 263, 267, 271, 276, 280, 284, 288, 292, 297, 301, 305, 309, 313, 317, 321, 326, 330, 334, 338,
    342, 346, 350, 354, 358, 362, 367, 371, 375, 379, 383, 387, 391, 395, 399, 403, 407, 411, 415, 419,
    423, 427, 431, 434, 438, 442, 446, 450, 454, 458, 462, 466, 469, 473, 477, 481, 485, 489, 492, 496,
    500, 504, 508, 511, 515, 519, 522, 526, 530, 534, 537, 541, 545, 548, 552, 556, 559, 563, 566, 570,
    574, 577, 581, 584, 588, 591, 595, 598, 602, 605, 609, 612, 616, 619, 623, 626, 629, 633, 636, 639,
    643, 646, 649, 653, 656, 659, 663, 666, 669, 672, 676, 679, 682, 685, 688, 692, 695, 698, 701, 704,
    707, 710, 713, 716, 719, 722, 725, 728, 731, 734, 737, 740, 743, 746, 749, 752, 755, 758, 760, 763,
    766, 769, 772, 774, 777, 780, 783, 785, 788, 791, 793, 796, 799, 801, 804, 806, 809, 812, 814, 817,
    819, 822, 824, 827, 829, 831, 834, 836, 839, 841, 843, 846, 848, 850, 853, 855, 857, 859, 862, 864,
    866, 868, 870, 872, 875, 877, 879, 881, 883, 885, 887, 889, 891, 893, 895, 897, 899, 901, 903, 904,
    906, 908, 910, 912, 914, 915, 917, 919, 921, 922, 924, 926, 927, 929, 930, 932, 934, 935, 937, 938,
    940, 941, 943, 944, 946, 947, 948, 950, 951, 952, 954, 955, 956, 958, 959, 960, 961, 962, 964, 965,
    966, 967, 968, 969, 970, 971, 972, 973, 974, 975, 976, 977, 978, 979, 980, 981, 982, 982, 983, 984,
    985, 986, 986, 987, 988, 988, 989, 990, 990, 991, 991, 992, 993, 993, 994, 994, 995, 995, 995, 996,
    996, 997, 997, 997, 998, 998, 998, 998, 999, 999, 999, 999, 999, 1000, 1000, 1000, 1000, 1000, 1000, 1000,
    1000, 1000, 1000, 1000, 1000, 1000, 1000, 1000, 999, 999, 999, 999, 999, 998, 998, 998, 998, 997, 997, 997,
    996, 996, 995, 995, 995, 994, 994, 993, 993, 992, 991, 991, 990, 990, 989, 988, 988, 987, 986, 986,
    985, 984, 983, 982, 982, 981, 980, 979, 978, 977, 976, 975, 974, 973, 972, 971, 970, 969, 968, 967,
    966, 965, 964, 962, 961, 960, 959, 958, 956, 955, 954, 952, 951, 950, 948, 947, 946, 944, 943, 941,
    940, 938, 937, 935, 934, 932, 930, 929, 927, 926, 924, 922, 921, 919, 917, 915, 914, 912, 910, 908,
    906, 904, 903, 901, 899, 897, 895, 893, 891, 889, 887, 885, 883, 881, 879, 877, 875, 872, 870, 868,
    866, 864, 862, 859, 857, 855, 853, 850, 848, 846, 843, 841, 839, 836, 834, 831, 829, 827, 824, 822,
    819, 817, 814, 812, 809, 806, 804, 801, 799, 796, 793, 791, 788, 785, 783, 780, 777, 774, 772, 769,
    766, 763, 760, 758, 755, 752, 749, 746, 743, 740, 737, 734, 731, 728, 725, 722, 719, 716, 713, 710,
    707, 704, 701, 698, 695, 692, 688, 685, 682, 679, 676, 672, 669, 666, 663, 659, 656, 653, 649, 646,
    643, 639, 636, 633, 629, 626, 623, 619, 616, 612, 609, 605, 602, 598, 595, 591, 588, 584, 581, 577,
    574, 570, 566, 563, 559, 556, 552, 548, 545, 541, 537, 534, 530, 526, 522, 519, 515, 511, 508, 504
>>

MinutesPerDay == 1440

SinMilli(hour) == SinTable[(hour % MinutesPerDay) + 1]

\* round(x, 1) on a value in milli: the nearest multiple of 100, a tie going
\* to the even tenth
round1(x) ==
    LET q == x \div 100
        r == x % 100
    IN  IF r < 50 THEN q * 100
        ELSE IF r > 50 THEN (q + 1) * 100
        ELSE IF q % 2 = 0 THEN q * 100 ELSE (q + 1) * 100

\* random.choice(seq) for a draw c in 0..999: the element at floor(c/1000 * len)
choice(seq, c) == seq[((c * Len(seq)) \div 1000) + 1]

\* random.uniform(a, b) in milli for a draw x in 0..999: a + (b - a) * x/1000
uniform(a, b, x) == a * 1000 + (b - a) * x

-----------------------------------------------------------------------------
(* Reading synthesizer.  Every random draw is a parameter. *)

\* Values that reach the sink as field values are tagged with their Python type.
FloatVal(m) == [ t |-> "float", n |-> m, s |-> "" ]
IntVal(z) == [ t |-> "int", n |-> z, s |-> "" ]
StrVal(text) == [ t |-> "str", n |-> 0, s |-> text ]
BoolVal(b) == [ t |-> "bool", n |-> 0, s |-> IF b THEN "True" ELSE "False" ]

\* simulate_temperature returning the sum without round(..., 1)
simulate_temperature_unrounded(v, room, hour, noise) ==
    20000 + Amplitude(v) * SinMilli(hour) + room_offset(v, room) + noise

\* simulate_temperature(room, hour) with noise = random.uniform(-0.5, 0.5), in milli
simulate_temperature(v, room, hour, noise) ==
    LET base_daily == 20000 + Amplitude(v) * SinMilli(hour)
    IN  round1(base_daily + room_offset(v, room) + noise)

\* the buckets closed on the right: (8, 18] and (18, 23]
prob_on_closed(hour) ==
    IF 8 * 60 < hour /\ hour <= 18 * 60 THEN 150
    ELSE IF 18 * 60 < hour /\ hour <= 23 * 60 THEN 700
    ELSE 300

\* prob_on of simulate_lights, in 1/1000; hour in minutes of the day
prob_on(hour) ==
    IF 8 * 60 <= hour /\ hour < 18 * 60 THEN 150
    ELSE IF 18 * 60 <= hour /\ hour < 23 * 60 THEN 700
    ELSE 300

\* simulate_lights(_, hour) with u = random.random()
simulate_lights(room, hour, u) == IF u < prob_on(hour) THEN 1 ELSE 0

\* peak_power with the test of the room dropped from the first branch
peak_power_any_room(room, u, c) ==
    IF u < PeakProb("cocina") THEN choice(PeakChoices("cocina"), c)
    ELSE IF room = "bano" /\ u < PeakProb("bano") THEN choice(PeakChoices("bano"), c)
    ELSE 0

\* peak_power of simulate_power_usage with u = random.random() and the draw c
\* of random.choice
peak_power(room, u, c) ==
    IF room = "cocina" /\ u < PeakProb("cocina") THEN choice(PeakChoices("cocina"), c)
    ELSE IF room = "bano" /\ u < PeakProb("bano") THEN choice(PeakChoices("bano"), c)
    ELSE 0

\* simulate_power_usage(room, lights_on), in watts (round(int, 1) is the int)
simulate_power_usage(room, lights_on, u, c) ==
    LET lights_power == IF lights_on # 0 THEN 10 ELSE 0
    IN  base_power(room) + lights_power + peak_power(room, u, c)

\* simulate_water_flow(_) of simulador_casa with u = random.random() and x the
\* draw of random.choice, in milli: the room is not looked at
simulate_water_flow_simulador(room, u, x) ==
    IF u < 500 THEN choice(valores, x) ELSE 0

\* simulate_water_flow(room) of mapa_simulacion_casa with u = random.random()
\* and x the draw of random.uniform
simulate_water_flow_mapa(room, u, x) ==
    IF room = "cocina" /\ u < 100 THEN round1(uniform(2, 8, x))
    ELSE IF room = "bano" /\ u < 150 THEN round1(uniform(3, 12, x))
    ELSE 0

\* simulate_water_flow(room) of interactivo_mapa_casa
simulate_water_flow_interactivo(room, u, x) ==
    IF room = "cocina"
    THEN IF u < 400 THEN round1(uniform(2, 8, x)) ELSE 0
    ELSE IF room = "bano"
    THEN IF u < 500 THEN round1(uniform(3, 12, x)) ELSE 0
    ELSE 0

\* simulate_water_flow of variant v
simulate_water_flow(v, room, u, x) ==
    IF v = SIMULADOR THEN simulate_water_flow_simulador(room, u, x)
    ELSE IF v = MAPA THEN simulate_water_flow_mapa(room, u, x)
    ELSE simulate_water_flow_interactivo(room, u, x)

\* one iteration of the loop of simulate_house_once: the Reading of a room
\* from the draws d of that iteration.  power_usage keeps its Python type: an
\* int here, a float when it comes from a slider.
Reading(v, t, room, d) ==
    LET lights_on == simulate_lights(room, t, d.uLights)
    IN  [ timestamp   |-> t,
          room        |-> room,
          temperature |-> simulate_temperature(v, room, t, d.noise),
          lights_on   |-> lights_on,
          power_usage |-> IntVal(simulate_power_usage(room, lights_on, d.uPeak, d.cPeak)),
          water_flow  |-> simulate_water_flow(v, room, d.uWater, d.xWater) ]

\* simulate_house_once() at the instant t with the draws ds[n] of room n
simulate_house_once(v, t, ds) ==
    [ n \in 1..Len(ROOMS) |-> Reading(v, t, ROOMS[n], ds[n]) ]

-----------------------------------------------------------------------------
(* Metrics sink: the line protocol encoder *)

\* digits of a fraction f in 0..999 as Python's repr prints them: trailing
\* zeros dropped, one digit at least
FracDigits(f) ==
    IF f % 100 = 0 THEN ToString(f \div 100)
    ELSE IF f % 10 = 0
    THEN (IF f < 100 THEN "0" ELSE "") \o ToString(f \div 10)
    ELSE (IF f < 10 THEN "00" ELSE IF f < 100 THEN "0" ELSE "") \o ToString(f)

\* str() of a float given in milli
FormatFloat(m) ==
    LET a == IF m < 0 THEN 0 - m ELSE m
    IN  (IF m < 0 THEN "-" ELSE "") \o ToString(a \div 1000) \o "." \o FracDigits(a % 1000)

\* f"{v}" of a field value that is not quoted
FormatScalar(val) ==
    IF val.t = "float" THEN FormatFloat(val.n)
    ELSE IF val.t = "int" THEN ToString(val.n)
    ELSE val.s

\* one element of field_parts
FieldPart(key, val) ==
    IF val.t = "str"
    THEN << key, "=", "\"", val.s, "\"" >>
    ELSE << key, "=", FormatScalar(val) >>

RECURSIVE TagTokens(_)
\* the loop over tags.items(): ",k=v" for each tag in iteration order
TagTokens(tags) ==
    IF tags = << >> THEN << >>
    ELSE << ",", Head(tags)[1], "=", Head(tags)[2] >> \o TagTokens(Tail(tags))

RECURSIVE FieldTokens(_)
\* ",".join(field_parts)
FieldTokens(fields) ==
    IF fields = << >> THEN << >>
    ELSE FieldPart(Head(fields)[1], Head(fields)[2])
         \o (IF Tail(fields) = << >> THEN << >> ELSE << "," >>)
         \o FieldTokens(Tail(fields))

\* the line with "if timestamp:" in place of "if timestamp is not None:"
EncodeLine_truthy(measurement, tags, fields, timestamp) ==
    << measurement >> \o TagTokens(tags) \o << " " >> \o FieldTokens(fields)
    \o (IF timestamp # << >> /\ timestamp[1] # 0
        THEN << " ", ToString(timestamp[1]) >> ELSE << >>)

\* the line built by write_to_influx, as the sequence of the pieces appended;
\* timestamp is << >> for None and << n >> for the integer n
EncodeLine(measurement, tags, fields, timestamp) ==
    << measurement >> \o TagTokens(tags) \o << " " >> \o FieldTokens(fields)
    \o (IF timestamp # << >> THEN << " ", ToString(timestamp[1]) >> ELSE << >>)

RECURSIVE LineText(_)
\* the text of the line
LineText(tokens) ==
    IF tokens = << >> THEN "" ELSE Head(tokens) \o LineText(Tail(tokens))

-----------------------------------------------------------------------------
(* Metrics sink: the gate, the POST and the handling of its result *)

\* the four values os.getenv returned: TRUE when the value is set and not empty
Configs == [ url : BOOLEAN, token : BOOLEAN, org : BOOLEAN, bucket : BOOLEAN ]

\* not INFLUX_URL or not INFLUX_TOKEN or not INFLUX_ORG or not INFLUX_BUCKET
ConfigIncomplete(c) == ~c.url \/ ~c.token \/ ~c.org \/ ~c.bucket

\* What a POST can come to: a response with its status code, or an exception.
Response(status) == [ kind |-> "response", status |-> status, exc |-> "" ]
Raises(exc) == [ kind |-> "exception", status |-> 0, exc |-> exc ]
NoOutcome == [ kind |-> "none", status |-> 0, exc |-> "" ]

\* the classes below requests.exceptions.RequestException that a POST raises
RequestExceptions == { "ConnectionError", "Timeout", "MissingSchema" }

\* The outcomes the backend and the network decide.  UnicodeEncodeError is what
\* http.client raises out of requests.post for a header value (the token) that
\* is not Latin-1: it is no RequestException.
PostOutcomes ==
    { Response(204), Response(200), Response(500),
      Raises("ConnectionError"), Raises("Timeout"), Raises("UnicodeEncodeError") }

\* requests.post(INFLUX_URL, ...): without a URL requests raises MissingSchema
\* while preparing the request, before anything is sent
requests_post(c, o) == IF ~c.url THEN Raises("MissingSchema") ELSE o

\* the gate at the head of write_to_influx; simulador_casa has none
Gated(v, c) == v # SIMULADOR /\ ConfigIncomplete(c)

\* a response that is not 204, or a RequestException
TransportFailure(r) ==
    \/ r.kind = "response" /\ r.status # 204
    \/ r.kind = "exception" /\ r.exc \in RequestExceptions

\* the try statement without its except clause
HandleResult_uncaught(r) ==
    [ logged |-> r.kind = "response" /\ r.status # 204,
      raised |-> r.kind = "exception" ]

\* the try statement taking every 2xx status for a success
HandleResult_any_success(r) ==
    [ logged |-> \/ r.kind = "response" /\ r.status \notin 200..299
                 \/ r.kind = "exception" /\ r.exc \in RequestExceptions,
      raised |-> r.kind = "exception" /\ r.exc \notin RequestExceptions ]

\* the try statement of write_to_influx around the outcome r of the POST:
\* both prints, and what the except clause does not catch
HandleResult(r) ==
    [ logged |-> \/ r.kind = "response" /\ r.status # 204
                 \/ r.kind = "exception" /\ r.exc \in RequestExceptions,
      raised |-> r.kind = "exception" /\ r.exc \notin RequestExceptions ]

\* write_to_influx(measurement, tags, fields, timestamp) in variant v with the
\* configuration c, when the environment answers a POST with o
write_to_influx(v, c, measurement, tags, fields, timestamp, o) ==
    IF Gated(v, c)
    THEN [ measurement |-> measurement, tags |-> tags, fields |-> fields,
           gated |-> TRUE, line |-> << >>, posted |-> FALSE, sent |-> FALSE,
           outcome |-> NoOutcome, logged |-> FALSE, raised |-> FALSE ]
    ELSE LET r == requests_post(c, o)
             h == HandleResult(r)
         IN  [ measurement |-> measurement, tags |-> tags, fields |-> fields,
               gated |-> FALSE,
               line |-> EncodeLine(measurement, tags, fields, timestamp),
               posted |-> TRUE, sent |-> c.url,
               outcome |-> r, logged |-> h.logged, raised |-> h.raised ]

\* before the first call
NoCall ==
    [ measurement |-> "", tags |-> << >>, fields |-> << >>,
      gated |-> FALSE, line |-> << >>, posted |-> FALSE, sent |-> FALSE,
      outcome |-> NoOutcome, logged |-> FALSE, raised |-> FALSE ]

-----------------------------------------------------------------------------
(* Batch reporter *)

\* the loop body writing lights before temperature
Metrics_lights_first(r) ==
    << [ measurement |-> "lights",
         tags |-> << << "room", r.room >> >>,
         fields |-> << << "state", IntVal(r.lights_on) >> >> ],
       [ measurement |-> "temperature",
         tags |-> << << "room", r.room >> >>,
         fields |-> << << "value", FloatVal(r.temperature) >> >> ],
       [ measurement |-> "power_usage",
         tags |-> << << "room", r.room >> >>,
         fields |-> << << "value", r.power_usage >> >> ],
       [ measurement |-> "water_flow",
         tags |-> << << "room", r.room >> >>,
         fields |-> << << "value", FloatVal(r.water_flow) >> >> ] >>

\* the loop body writing the lights under the field key value
Metrics_lights_value(r) ==
    << [ measurement |-> "temperature",
         tags |-> << << "room", r.room >> >>,
         fields |-> << << "value", FloatVal(r.temperature) >> >> ],
       [ measurement |-> "lights",
         tags |-> << << "room", r.room >> >>,
         fields |-> << << "value", IntVal(r.lights_on) >> >> ],
       [ measurement |-> "power_usage",
         tags |-> << << "room", r.room >> >>,
         fields |-> << << "value", r.power_usage >> >> ],
       [ measurement |-> "water_flow",
         tags |-> << << "room", r.room >> >>,
         fields |-> << << "value", FloatVal(r.water_flow) >> >> ] >>

\* the four calls of write_to_influx the reporter makes for the Reading r,
\* in the order of the source
Metrics(r) ==
    << [ measurement |-> "temperature",
         tags |-> << << "room", r.room >> >>,
         fields |-> << << "value", FloatVal(r.temperature) >> >> ],
       [ measurement |-> "lights",
         tags |-> << << "room", r.room >> >>,
         fields |-> << << "state", IntVal(r.lights_on) >> >> ],
       [ measurement |-> "power_usage",
         tags |-> << << "room", r.room >> >>,
         fields |-> << << "value", r.power_usage >> >> ],
       [ measurement |-> "water_flow",
         tags |-> << << "room", r.room >> >>,
         fields |-> << << "value", FloatVal(r.water_flow) >> >> ] >>

\* the loop left after the first Reading
AfterWrite_first_only(v, ii, kk, raised) ==
    IF raised
    THEN [ pc |-> IF v = SIMULADOR THEN "crashed" ELSE "idle", i |-> ii, k |-> kk ]
    ELSE IF kk < 4
    THEN [ pc |-> "write", i |-> ii, k |-> kk + 1 ]
    ELSE [ pc |-> IF IsGUI(v) THEN "resched" ELSE "sleep", i |-> ii, k |-> kk ]

\* Where the reporter stands after call kk of Reading ii returned or raised.
\* An exception that leaves write_to_influx ends main (the process is gone);
\* in a Tk callback it is reported by Tk and the callback ends there, before
\* root.after is reached.
AfterWrite(v, ii, kk, raised) ==
    IF raised
    THEN [ pc |-> IF v = SIMULADOR THEN "crashed" ELSE "idle", i |-> ii, k |-> kk ]
    ELSE IF kk < 4
    THEN [ pc |-> "write", i |-> ii, k |-> kk + 1 ]
    ELSE IF IsGUI(v)
    THEN [ pc |-> "visual", i |-> ii, k |-> kk ]
    ELSE IF ii < Len(ROOMS)
    THEN [ pc |-> "print", i |-> ii + 1, k |-> 1 ]
    ELSE [ pc |-> "sleep", i |-> ii, k |-> kk ]

\* The draws of one iteration of simulate_house_once: with DrawOn the lights
\* come on and water flows, with DrawPeak a peak fires, with DrawQuiet nothing
\* happens.
DrawOn ==
    [ noise |-> -500, uLights |-> 0, uPeak |-> 999, cPeak |-> 0,
      uWater |-> 49, xWater |-> 999 ]

DrawPeak ==
    [ noise |-> 500, uLights |-> 999, uPeak |-> 0, cPeak |-> 999,
      uWater |-> 999, xWater |-> 0 ]

DrawQuiet ==
    [ noise |-> 0, uLights |-> 700, uPeak |-> 100, cPeak |-> 500,
      uWater |-> 500, xWater |-> 500 ]

\* the draws of the four iterations of one call of simulate_house_once
CycleDraws ==
    { << DrawOn, DrawOn, DrawOn, DrawOn >>,
      << DrawPeak, DrawPeak, DrawPeak, DrawPeak >>,
      << DrawQuiet, DrawQuiet, DrawQuiet, DrawQuiet >>,
      << DrawOn, DrawPeak, DrawQuiet, DrawOn >>,
      << DrawPeak, DrawQuiet, DrawOn, DrawPeak >>,
      << DrawQuiet, DrawOn, DrawPeak, DrawQuiet >> }

\* the instants datetime.now() returns to a cycle (minute of day)
CycleClock == { 7 * 60 + 59, 20 * 60 }

NoProbe == [ fn |-> "none" ]

\* the control panel as _build_control_panel leaves it: per room the lights
\* checkbox off, the temperature slider at 21.0, the power slider at 50.0 and,
\* for cocina and bano, the water slider at 0.0 (milli)
ManualDefaults ==
    [ room \in RoomSet |->
        [ lights |-> FALSE, temperature |-> 21000, power |-> 50000, water |-> 0 ] ]

\* _build_manual_readings(now): the Readings from the manual controls m
build_manual_readings(m, t) ==
    [ n \in 1..Len(ROOMS) |->
        LET room == ROOMS[n]
        IN  [ timestamp   |-> t,
              room        |-> room,
              temperature |-> m[room].temperature,
              lights_on   |-> IF m[room].lights THEN 1 ELSE 0,
              power_usage |-> FloatVal(m[room].power),
              water_flow  |-> IF room \in {"cocina", "bano"} THEN m[room].water ELSE 0 ] ]

\* After construction: main is about to call simulate_house_once; HouseGUI's
\* constructor has queued the first update_simulation with root.after(200, ...).
Init ==
    /\ variant \in Variants
    /\ cfg \in Configs
    /\ pc = IF variant = SIMULADOR THEN "synth" ELSE "idle"
    /\ pending = IF IsGUI(variant) THEN 1 ELSE 0
    /\ mode = "auto"
    /\ manual = ManualDefaults
    /\ now = 0
    /\ readings = << >>
    /\ i = 0
    /\ k = 0
    /\ nCalls = 0
    /\ nPosts = 0
    /\ lastCall = NoCall
    /\ failSeen = FALSE
    /\ slow = FALSE
    /\ probe = NoProbe

\* time.sleep(5) returns and the while loop of main starts over
Wake ==
    /\ variant = SIMULADOR
    /\ pc = "sleep"
    /\ pc' = "synth"
    /\ UNCHANGED << variant, cfg, pending, mode, manual, now, readings, i, k, nCalls, nPosts,
                    lastCall, failSeen, slow, probe >>

\* the Tk main loop, idle, runs the callback root.after queued
TimerFire ==
    /\ IsGUI(variant)
    /\ pc = "idle"
    /\ pending > 0
    /\ pending' = pending - 1
    /\ pc' = "synth"
    /\ UNCHANGED << variant, cfg, mode, manual, now, readings, i, k, nCalls, nPosts,
                    lastCall, failSeen, slow, probe >>

\* readings = simulate_house_once().  In interactivo_mapa_casa
\* update_simulation has taken its own now = datetime.now() before, and takes
\* this branch in mode auto.
Synthesize ==
    /\ pc = "synth"
    /\ variant = INTERACTIVO => mode = "auto"
    /\ \E t0 \in CycleClock, t \in CycleClock, ds \in CycleDraws :
          /\ t0 <= t
          /\ variant # INTERACTIVO => t0 = t
          /\ now' = t0
          /\ readings' = simulate_house_once(variant, t, ds)
    /\ i' = 1
    /\ k' = 1
    /\ nCalls' = 0
    /\ nPosts' = 0
    /\ failSeen' = FALSE
    /\ slow' = FALSE
    /\ pc' = "print"
    /\ UNCHANGED << variant, cfg, pending, mode, manual, lastCall, probe >>

\* now = datetime.now(); readings = self._build_manual_readings(now)
BuildManualReadings ==
    /\ pc = "synth"
    /\ variant = INTERACTIVO
    /\ mode # "auto"
    /\ \E t \in CycleClock :
          /\ now' = t
          /\ readings' = build_manual_readings(manual, t)
    /\ i' = 1
    /\ k' = 1
    /\ nCalls' = 0
    /\ nPosts' = 0
    /\ failSeen' = FALSE
    /\ slow' = FALSE
    /\ pc' = "print"
    /\ UNCHANGED << variant, cfg, pending, mode, manual, lastCall, probe >>

\* on_mode_change run at any point, also in the middle of update_simulation
OnModeChange_anytime ==
    /\ variant = INTERACTIVO
    /\ pc \in {"idle", "print", "write", "visual"}
    /\ mode' = IF mode = "auto" THEN "manual" ELSE "auto"
    /\ UNCHANGED << variant, cfg, pc, pending, manual, now, readings, i, k, nCalls,
                    nPosts, lastCall, failSeen, slow, probe >>

\* the user clicks the other radio button while the Tk main loop is idle:
\* Tk sets self.mode and runs on_mode_change, which touches widgets only
OnModeChange ==
    /\ variant = INTERACTIVO
    /\ pc = "idle"
    /\ mode' = IF mode = "auto" THEN "manual" ELSE "auto"
    /\ UNCHANGED << variant, cfg, pc, pending, manual, now, readings, i, k, nCalls,
                    nPosts, lastCall, failSeen, slow, probe >>

\* print(...) of the Reading at the head of the loop body
PrintReading ==
    /\ pc = "print"
    /\ pc' = "write"
    /\ k' = 1
    /\ UNCHANGED << variant, cfg, pending, mode, manual, now, readings, i, nCalls, nPosts,
                    lastCall, failSeen, slow, probe >>

\* one call of write_to_influx from the loop body
WriteMetric ==
    /\ pc = "write"
    /\ \E o \in PostOutcomes, m \in { Metrics(readings[i])[k] } :
          \E res \in { write_to_influx(variant, cfg, m.measurement, m.tags, m.fields,
                                       << >>, o) } :
             \E nxt \in { AfterWrite(variant, i, k, res.raised) } :
                /\ lastCall' = res
                /\ nCalls' = nCalls + 1
                /\ nPosts' = nPosts + (IF res.posted THEN 1 ELSE 0)
                /\ failSeen' = (failSeen \/ TransportFailure(res.outcome))
                /\ slow' = (slow \/ res.outcome = Raises("Timeout"))
                /\ pc' = nxt.pc
                /\ i' = nxt.i
                /\ k' = nxt.k
    /\ UNCHANGED << variant, cfg, pending, mode, manual, now, readings, probe >>

\* self._update_room_visual(r), the last statement of the loop body (GUI)
UpdateRoomVisual ==
    /\ pc = "visual"
    /\ IF i < Len(readings)
       THEN /\ i' = i + 1
            /\ pc' = "print"
       ELSE /\ i' = i
            /\ pc' = "resched"
    /\ UNCHANGED << variant, cfg, pending, mode, manual, now, readings, k, nCalls, nPosts,
                    lastCall, failSeen, slow, probe >>

\* update_simulation returning without root.after
Reschedule_forgotten ==
    /\ pc = "resched"
    /\ pc' = "idle"
    /\ UNCHANGED << variant, cfg, pending, mode, manual, now, readings, i, k, nCalls, nPosts,
                    lastCall, failSeen, slow, probe >>

\* self.root.after(self.update_interval_ms, self.update_simulation)
Reschedule ==
    /\ pc = "resched"
    /\ pending' = pending + 1
    /\ pc' = "idle"
    /\ UNCHANGED << variant, cfg, mode, manual, now, readings, i, k, nCalls, nPosts,
                    lastCall, failSeen, slow, probe >>

Next ==
    \/ Wake
    \/ TimerFire
    \/ Synthesize
    \/ BuildManualReadings
    \/ OnModeChange
    \/ PrintReading
    \/ WriteMetric
    \/ UpdateRoomVisual
    \/ Reschedule

Spec == Init /\ [][Next]_vars

-----------------------------------------------------------------------------
(* The user of interactivo_mapa_casa.  In Spec the control panel stays as    *)
(* built; UserSpec adds the commands of the checkbox and of the scales,      *)
(* which Tk runs between two callbacks, while its main loop is idle.  The    *)
(* controls are disabled in mode auto (_set_manual_controls_state).          *)

\* the positions the user drags a scale to (milli): temperature 15..30 by 0.5,
\* power 0..2000 by 10, water 0..15 by 0.5
TemperatureScale == { 21000, 30000 }

PowerScale == { 0, 50000 }

WaterScale == { 0, 15000 }

\* the rooms whose control of each kind the user touches
TouchedRooms ==
    [ lights |-> {"cocina"}, temperature |-> {"salon"}, power |-> {"bano"},
      water |-> {"cocina"} ]

\* the main loop is idle and the manual controls are enabled
ControlsEnabled ==
    /\ variant = INTERACTIVO
    /\ pc = "idle"
    /\ mode = "manual"

\* the user clicks a lights checkbox: Tk flips lights_var and runs the
\* command, _update_room_visual_from_manual(room), which redraws the room
OnLightsCheck ==
    /\ ControlsEnabled
    /\ \E room \in TouchedRooms.lights :
          manual' = [ manual EXCEPT ![room].lights = ~@ ]
    /\ UNCHANGED << variant, cfg, pc, pending, mode, now, readings, i, k, nCalls,
                    nPosts, lastCall, failSeen, slow, probe >>

\* the user drags a temperature scale: Tk sets temp_var and runs the command
OnTemperatureScale ==
    /\ ControlsEnabled
    /\ \E room \in TouchedRooms.temperature, val \in TemperatureScale :
          /\ val # manual[room].temperature
          /\ manual' = [ manual EXCEPT ![room].temperature = val ]
    /\ UNCHANGED << variant, cfg, pc, pending, mode, now, readings, i, k, nCalls,
                    nPosts, lastCall, failSeen, slow, probe >>

\* the user drags a power scale
OnPowerScale ==
    /\ ControlsEnabled
    /\ \E room \in TouchedRooms.power, val \in PowerScale :
          /\ val # manual[room].power
          /\ manual' = [ manual EXCEPT ![room].power = val ]
    /\ UNCHANGED << variant, cfg, pc, pending, mode, now, readings, i, k, nCalls,
                    nPosts, lastCall, failSeen, slow, probe >>

\* the user drags a water scale; only cocina and bano have one
OnWaterScale ==
    /\ ControlsEnabled
    /\ \E room \in TouchedRooms.water \cap {"cocina", "bano"}, val \in WaterScale :
          /\ val # manual[room].water
          /\ manual' = [ manual EXCEPT ![room].water = val ]
    /\ UNCHANGED << variant, cfg, pc, pending, mode, now, readings, i, k, nCalls,
                    nPosts, lastCall, failSeen, slow, probe >>

\* the configurations of UserSpec: INFLUX_URL set or unset, the rest set
UserConfigs == { c \in Configs : c.token /\ c.org /\ c.bucket }

UserInit ==
    /\ Init
    /\ cfg \in UserConfigs

UserNext ==
    \/ Wake
    \/ TimerFire
    \/ Synthesize
    \/ BuildManualReadings
    \/ OnModeChange
    \/ OnLightsCheck
    \/ OnTemperatureScale
    \/ OnPowerScale
    \/ OnWaterScale
    \/ PrintReading
    \/ WriteMetric
    \/ UpdateRoomVisual
    \/ Reschedule

UserSpec == UserInit /\ [][UserNext]_vars

-----------------------------------------------------------------------------
(* The pure functions on their own: ProbeSpec draws the arguments and the    *)
(* random draws of one application in its initial state, and the action of   *)
(* the function applies it.                                                  *)

\* resolution of the grid of noise draws over [-0.5, +0.5]
NoiseSteps == 4

\* resolution of the grid of random.choice draws over [0, 1)
ChoiceSteps == 18

\* resolution of the grid of random.uniform draws over [0, 1)
UniformSteps == 6

NoiseDraws == { -500 + ((1000 * j) \div NoiseSteps) : j \in 0..NoiseSteps }

ChoiceDraws == { (999 * j) \div ChoiceSteps : j \in 0..ChoiceSteps }

UniformDraws == { (999 * j) \div UniformSteps : j \in 0..UniformSteps }

\* values of random.random() on both sides of every threshold of the source
UnitDraws == { 0, 49, 50, 99, 100, 149, 150, 299, 300, 399, 400, 499, 500, 699, 700, 999 }

\* hours of the day: every full hour, half hour and last minute of an hour
ProbeClock == { h * 60 + m : h \in 0..23, m \in {0, 30, 59} }

TemperatureInputs ==
    [ fn : {"simulate_temperature"}, v : Variants, room : RoomSet,
      hour : ProbeClock, noise : NoiseDraws ]

LightsInputs ==
    [ fn : {"simulate_lights"}, room : RoomSet, hour : ProbeClock, u : UnitDraws ]

PowerInputs ==
    [ fn : {"simulate_power_usage"}, room : RoomSet, lights_on : {0, 1},
      u : UnitDraws, c : ChoiceDraws ]

WaterInputs ==
    [ fn : {"simulate_water_flow"}, v : Variants, room : RoomSet,
      u : UnitDraws, x : ChoiceDraws \cup UniformDraws ]

\* tag sets and field sets in their iteration order
ProbeTags ==
    { << >>,
      << << "room", "cocina" >> >>,
      << << "room", "bano" >>, << "floor", "1" >> >>,
      << << "floor", "1" >>, << "room", "bano" >> >> }

ProbeFields ==
    { << << "value", FloatVal(21300) >> >>,
      << << "value", FloatVal(0) >> >>,
      << << "value", FloatVal(-4500) >> >>,
      << << "state", IntVal(1) >> >>,
      << << "state", IntVal(0) >> >>,
      << << "name", StrVal("on") >> >>,
      << << "open", BoolVal(TRUE) >>, << "state", IntVal(-3) >> >>,
      << << "value", FloatVal(21250) >>, << "name", StrVal("") >> >>,
      << << "name", StrVal("a b") >>, << "state", IntVal(90) >>,
         << "value", FloatVal(11600) >> >> }

\* timestamp=None, 0 and an epoch
ProbeTimestamps == { << >>, << 0 >>, << 1730874000 >> }

EncodeInputs ==
    [ fn : {"EncodeLine"}, measurement : {"temperature", "lights"},
      tags : ProbeTags, fields : ProbeFields, timestamp : ProbeTimestamps ]

SinkInputs ==
    [ fn : {"write_to_influx"}, v : Variants, c : Configs,
      measurement : {"temperature"},
      tags : { << >>, << << "room", "cocina" >> >> },
      fields : { << << "value", FloatVal(21300) >> >>,
                 << << "name", StrVal("on") >>, << "state", IntVal(1) >> >> },
      timestamp : { << >>, << 0 >> },
      o : PostOutcomes ]

\* the variables of the running program, which no application of a pure
\* function touches
programVars == << variant, cfg, pc, pending, mode, manual, now, readings, i, k,
                  nCalls, nPosts, lastCall, failSeen, slow >>

Args(in) == [ fn |-> in.fn, stage |-> "args", in |-> in, out |-> 0 ]

ProbeInit ==
    /\ variant = SIMULADOR
    /\ cfg = [ url |-> TRUE, token |-> TRUE, org |-> TRUE, bucket |-> TRUE ]
    /\ pc = "probe"
    /\ pending = 0
    /\ mode = "auto"
    /\ manual = ManualDefaults
    /\ now = 0
    /\ readings = << >>
    /\ i = 0
    /\ k = 0
    /\ nCalls = 0
    /\ nPosts = 0
    /\ lastCall = NoCall
    /\ failSeen = FALSE
    /\ slow = FALSE
    /\ \/ \E in \in TemperatureInputs : probe = Args(in)
       \/ \E in \in LightsInputs : probe = Args(in)
       \/ \E in \in PowerInputs : probe = Args(in)
       \/ \E in \in WaterInputs : probe = Args(in)
       \/ \E in \in EncodeInputs : probe = Args(in)
       \/ \E in \in SinkInputs : probe = Args(in)

\* the application of function fn to the drawn arguments yields out
Apply(fn, out) ==
    /\ pc = "probe"
    /\ probe.stage = "args"
    /\ probe.fn = fn
    /\ probe' = [ probe EXCEPT !.stage = "result", !.out = out ]
    /\ UNCHANGED programVars

ApplyTemperature ==
    Apply("simulate_temperature",
          simulate_temperature(probe.in.v, probe.in.room, probe.in.hour, probe.in.noise))

ApplyLights ==
    Apply("simulate_lights", simulate_lights(probe.in.room, probe.in.hour, probe.in.u))

ApplyPower ==
    Apply("simulate_power_usage",
          simulate_power_usage(probe.in.room, probe.in.lights_on, probe.in.u, probe.in.c))

ApplyWater ==
    Apply("simulate_water_flow",
          simulate_water_flow(probe.in.v, probe.in.room, probe.in.u, probe.in.x))

ApplyEncode ==
    Apply("EncodeLine",
          EncodeLine(probe.in.measurement, probe.in.tags, probe.in.fields,
                     probe.in.timestamp))

ApplySink ==
    Apply("write_to_influx",
          write_to_influx(probe.in.v, probe.in.c, probe.in.measurement, probe.in.tags,
                          probe.in.fields, probe.in.timestamp, probe.in.o))

ProbeNext ==
    \/ ApplyTemperature
    \/ ApplyLights
    \/ ApplyPower
    \/ ApplyWater
    \/ ApplyEncode
    \/ ApplySink

ProbeSpec == ProbeInit /\ [][ProbeNext]_vars

-----------------------------------------------------------------------------
(* Claims *)

\* the running cycle is over: main sleeps or is gone, the Tk callback has
\* returned or is at its last statement
CycleOver ==
    \/ pc \in {"sleep", "resched", "crashed"}
    \/ pc = "idle" /\ readings # << >>

\* an exception left write_to_influx and ended the cycle
Escaped ==
    /\ lastCall.raised
    /\ pc = "crashed" \/ (pc = "idle" /\ pending = 0)

\* C1: with any of the four configuration values missing, no call of
\* write_to_influx invokes requests.post and none logs, in any variant.
C1_NoOpWhenIncomplete ==
    ConfigIncomplete(cfg) =>
        /\ ~lastCall.posted
        /\ ~lastCall.logged
        /\ nPosts = 0

\* C2: write_to_influx never raises to its caller, whatever the POST comes to.
C2_NeverRaises == ~lastCall.raised /\ pc # "crashed"

\* C3: a transport failure (a status other than 204, a RequestException) on
\* call N < 16 leaves the reporter inside the loop, about to attempt call
\* N + 1, the calls being numbered in loop order; a cycle ends short of 16
\* attempted writes only when an exception left write_to_influx.
C3_FailureDoesNotStopCycle ==
    /\ (nCalls \in 1..15 /\ lastCall.posted /\ TransportFailure(lastCall.outcome))
          => pc \in {"write", "visual", "print"}
    /\ pc = "write" => nCalls = 4 * (i - 1) + (k - 1)
    /\ pc = "print" => nCalls = 4 * (i - 1)
    /\ pc = "visual" => nCalls = 4 * i
    /\ (CycleOver /\ ~Escaped) => nCalls = 16
    /\ (CycleOver /\ failSeen /\ ~lastCall.raised) => nCalls = 16

\* a cycle completed all 16 writes although an earlier one failed
C3_Witness ==
    /\ CycleOver
    /\ failSeen
    /\ nCalls = 16
    /\ lastCall.outcome = Response(204)

\* C4: every cycle produces exactly 4 Readings, one per room of ROOMS with
\* the four channel values, and issues exactly 16 calls of write_to_influx.
C4_FullCycle ==
    /\ readings # << >> =>
          /\ Len(readings) = 4
          /\ \A n \in 1..4 :
                /\ readings[n].room = ROOMS[n]
                /\ {"temperature", "lights_on", "power_usage", "water_flow"}
                      \subseteq DOMAIN readings[n]
    /\ CycleOver => nCalls = 16

\* C5: no Reading and no water_flow record of salon or dormitorio carries a
\* water flow other than 0.0, in any variant.
C5_NoWaterInDryRooms ==
    /\ \A n \in DOMAIN readings :
          readings[n].room \in {"salon", "dormitorio"} => readings[n].water_flow = 0
    /\ ( /\ lastCall.measurement = "water_flow"
         /\ lastCall.tags[1][2] \in {"salon", "dormitorio"} )
          => lastCall.fields[1][2].n = 0

\* Scheduling: time.sleep(5) returns and Tk runs a due callback; every step
\* of a cycle is a bounded computation and the POST carries a timeout, so a
\* step that can be taken is taken.
FairSpec ==
    /\ Spec
    /\ WF_vars(Wake)
    /\ WF_vars(TimerFire)
    /\ WF_vars(Synthesize)
    /\ WF_vars(BuildManualReadings)
    /\ WF_vars(PrintReading)
    /\ WF_vars(WriteMetric)
    /\ WF_vars(UpdateRoomVisual)
    /\ WF_vars(Reschedule)

\* the next cycle is due: main sleeps, or an update_simulation is queued
\* while the Tk main loop is idle
TimerArmed ==
    \/ pc = "sleep"
    \/ pc = "idle" /\ pending > 0

\* C6: whenever a cycle is over and the next is due, the next cycle starts;
\* and a cycle that started is over with the next one due, whatever the
\* outcomes of its writes (204, another status, a RequestException, the
\* no-op of an incomplete configuration), unless an exception left
\* write_to_influx.
C6_KeepsRunning ==
    /\ TimerArmed ~> (pc = "synth")
    /\ (pc = "synth") ~> (TimerArmed \/ Escaped)

\* a cycle in which a write failed is over and the next one is due
C6_Witness ==
    /\ TimerArmed
    /\ readings # << >>
    /\ nCalls = 16
    /\ failSeen

\* C7: the writes of a cycle are issued one after the other in loop order,
\* no update_simulation is queued while one runs, and the Readings of a
\* cycle are synthesized only when all 16 writes of the cycle before have
\* returned, also when that cycle ran into the period.
C7_NoOverlap ==
    /\ pc = "synth" => (readings = << >> \/ nCalls = 16)
    /\ pc = "write" => nCalls = 4 * (i - 1) + (k - 1)
    /\ pc \notin {"idle", "sleep"} => pending = 0
    /\ pending <= 1

\* the next cycle is about to be synthesized after a cycle that a timeout
\* made longer than the period
C7_Witness ==
    /\ pc = "synth"
    /\ slow
    /\ nCalls = 16

\* the index in the line of the first piece of field j
RECURSIVE FieldStart(_, _, _)
FieldStart(fields, j, first) ==
    IF j = 1 THEN first
    ELSE FieldStart(Tail(fields), j - 1,
                    first + (IF Head(fields)[2].t = "str" THEN 5 ELSE 3) + 1)

\* C8: the line is the measurement, then ",key=value" per tag in iteration
\* order, a space, the fields "key=value" joined by commas with string values
\* in double quotes and other scalars bare, and a space and the timestamp
\* exactly when the timestamp is not None (0 included); the two examples of
\* the specification come out letter for letter.
C8_LineProtocol ==
    (probe.fn = "EncodeLine" /\ probe.stage = "result") =>
        LET in == probe.in
            line == probe.out
            nt == Len(in.tags)
            nf == Len(in.fields)
            f1 == 4 * nt + 3
            end == FieldStart(in.fields, nf, f1)
                     + (IF in.fields[nf][2].t = "str" THEN 5 ELSE 3) - 1
        IN  /\ line[1] = in.measurement
            /\ \A j \in 1..nt :
                  SubSeq(line, 4 * j - 2, 4 * j + 1)
                     = << ",", in.tags[j][1], "=", in.tags[j][2] >>
            /\ line[4 * nt + 2] = " "
            /\ \A j \in 1..nf :
                  LET s == FieldStart(in.fields, j, f1)
                      key == in.fields[j][1]
                      val == in.fields[j][2]
                  IN  /\ j > 1 => line[s - 1] = ","
                      /\ IF val.t = "str"
                         THEN SubSeq(line, s, s + 4) = << key, "=", "\"", val.s, "\"" >>
                         ELSE /\ SubSeq(line, s, s + 1) = << key, "=" >>
                              /\ val.t = "int" => line[s + 2] = ToString(val.n)
                              /\ val = BoolVal(TRUE) => line[s + 2] = "True"
                              /\ val = FloatVal(21300) => line[s + 2] = "21.3"
                              /\ val = FloatVal(21250) => line[s + 2] = "21.25"
                              /\ val = FloatVal(11600) => line[s + 2] = "11.6"
                              /\ val = FloatVal(0) => line[s + 2] = "0.0"
                              /\ val = FloatVal(-4500) => line[s + 2] = "-4.5"
            /\ IF in.timestamp = << >>
               THEN Len(line) = end
               ELSE /\ Len(line) = end + 2
                    /\ SubSeq(line, end + 1, end + 2)
                          = << " ", ToString(in.timestamp[1]) >>
            /\ ( /\ in.measurement = "temperature"
                 /\ in.tags = << << "room", "cocina" >> >>
                 /\ in.fields = << << "value", FloatVal(21300) >> >>
                 /\ in.timestamp = << >> )
                  => LineText(line) = "temperature,room=cocina value=21.3"
            /\ ( /\ in.measurement = "lights"
                 /\ in.tags = << << "room", "cocina" >> >>
                 /\ in.fields = << << "state", IntVal(1) >> >>
                 /\ in.timestamp = << >> )
                  => LineText(line) = "lights,room=cocina state=1"

\* a line with two tags, a quoted and two bare fields and the timestamp 0
C8_Witness ==
    /\ probe.fn = "EncodeLine"
    /\ probe.stage = "result"
    /\ probe.in.timestamp = << 0 >>
    /\ Len(probe.in.tags) = 2
    /\ Len(probe.in.fields) = 3
    /\ LineText(probe.out) = "lights,floor=1,room=bano name=\"a b\",state=90,value=11.6 0"

\* C9: simulate_power_usage is never negative and at least base_power[room];
\* it exceeds base_power[room] + 10 only when the room's peak fires, the peak
\* being an element of {500, 800, 1200} for cocina and of {600, 900} for
\* bano; salon and dormitorio yield base_power or base_power + 10.
C9_PowerBounds ==
    (probe.fn = "simulate_power_usage" /\ probe.stage = "result") =>
        LET room == probe.in.room
            base == base_power(room)
            lights == IF probe.in.lights_on = 1 THEN 10 ELSE 0
            peak == probe.out - base - lights
            fired == \/ room = "cocina" /\ probe.in.u < 100
                     \/ room = "bano" /\ probe.in.u < 50
        IN  /\ probe.out >= 0
            /\ probe.out >= base
            /\ probe.out > base + 10 => fired
            /\ fired => peak \in (IF room = "cocina" THEN {500, 800, 1200} ELSE {600, 900})
            /\ ~fired => peak = 0
            /\ room \in {"salon", "dormitorio"} => probe.out \in {base, base + 10}

\* the bathroom's largest peak with the light on
C9_Witness ==
    /\ probe.fn = "simulate_power_usage"
    /\ probe.stage = "result"
    /\ probe.in.room = "bano"
    /\ probe.in.lights_on = 1
    /\ probe.out = 10 + 10 + 900

\* C10: simulate_temperature(r, h) lies within
\* [baseline(r) - A - 0.5, baseline(r) + A + 0.5] for baseline(r) = 20 +
\* room_offset[r] and A = 2 in simulador_casa, 4 in the GUI variants, and is
\* a multiple of 0.1.
C10_TemperatureRange ==
    (probe.fn = "simulate_temperature" /\ probe.stage = "result") =>
        LET baseline == 20000 + room_offset(probe.in.v, probe.in.room)
            A == IF probe.in.v = SIMULADOR THEN 2000 ELSE 4000
        IN  /\ probe.out >= baseline - A - 500
            /\ probe.out <= baseline + A + 500
            /\ probe.out % 100 = 0

\* the upper end of the range is reached: the kitchen at 20:00 in
\* simulador_casa with the largest noise
C10_Witness ==
    /\ probe.fn = "simulate_temperature"
    /\ probe.stage = "result"
    /\ probe.in.v = SIMULADOR
    /\ probe.in.room = "cocina"
    /\ probe.in.hour = 20 * 60
    /\ probe.out = 20000 + 3500 + 2000 + 500

-----------------------------------------------------------------------------
(* Order of a cycle *)

\* the measurements of one Reading in the order the loop body writes them
MeasurementOrder == << "temperature", "lights", "power_usage", "water_flow" >>

\* the reporter is inside the loop over the batch
InLoop == pc \in {"print", "write", "visual"}

-----------------------------------------------------------------------------
(* POSTs of a cycle *)

\* C12: each call of write_to_influx issues at most one POST and none is
\* retried: in every cycle, at every moment, the number of POSTs issued is the
\* number of sink calls made with the configuration complete, which is at
\* most 16, so that no POST leaves with the configuration incomplete and with
\* it complete every call made so far has posted exactly once.
C12_OnePostPerConfiguredCall ==
    /\ nPosts <= nCalls
    /\ nCalls <= 4 * Len(ROOMS)
    /\ ConfigIncomplete(cfg) => ~(lastCall.posted /\ lastCall.sent)
    /\ ~ConfigIncomplete(cfg) => nPosts = nCalls

-----------------------------------------------------------------------------
(* Shape of a sink call *)

\* C13: every sink call the reporter makes, in every cycle, in mode auto and
\* in mode manual, carries exactly one tag, room, with one of the four room
\* identifiers as its value, one of the measurement names temperature, lights,
\* power_usage, water_flow, and exactly one field: state with the value 0 or 1
\* for lights, value for the other three.
C13_CallShape ==
    lastCall # NoCall =>
        /\ Len(lastCall.tags) = 1
        /\ lastCall.tags[1][1] = "room"
        /\ lastCall.tags[1][2] \in RoomSet
        /\ lastCall.measurement \in {"temperature", "lights", "power_usage", "water_flow"}
        /\ Len(lastCall.fields) = 1
        /\ IF lastCall.measurement = "lights"
           THEN /\ lastCall.fields[1][1] = "state"
                /\ lastCall.fields[1][2] \in { IntVal(0), IntVal(1) }
           ELSE lastCall.fields[1][1] = "value"

\* in mode manual, with the lights of cocina checked, the lights of cocina
\* have been written
C13_Witness ==
    /\ variant = INTERACTIVO
    /\ mode = "manual"
    /\ manual["cocina"].lights
    /\ pc = "write"
    /\ i = 3
    /\ k = 3
    /\ readings = build_manual_readings(manual, now)
    /\ lastCall.measurement = "lights"
    /\ lastCall.tags = << << "room", "cocina" >> >>
    /\ lastCall.fields = << << "state", IntVal(1) >> >>

-----------------------------------------------------------------------------
(* Lights *)

\* the probability (per mille) of the bucket of the full hour h of the day
BucketProb(h) ==
    IF h \in 8..17 THEN 150
    ELSE IF h \in 18..22 THEN 700
    ELSE 300

-----------------------------------------------------------------------------
(* Clock *)

\* the running cycle took its batch from simulate_house_once
Synthesized == variant = INTERACTIVO => mode = "auto"

\* C15: each cycle captures the wall-clock instant once: the four Readings of
\* its batch all carry the instant the cycle captured as their timestamp, a
\* synthesized batch is computed from the hour of day of that one instant, and
\* that hour lies in [0,24).
C15_SingleCapture ==
    InLoop =>
        /\ \A n \in 1..Len(readings) : readings[n].timestamp = now
        /\ now \in 0..(24 * 60 - 1)
        /\ Synthesized =>
              \E ds \in CycleDraws : readings = simulate_house_once(variant, now, ds)

-----------------------------------------------------------------------------
(* Water flow *)

\* C17: in all three variants simulate_water_flow returns, for cocina, 0.0 or
\* a value in [2,8], for bano, 0.0 or a value in [3,12], and for no room a
\* negative value.
C17_WaterRanges ==
    (probe.fn = "simulate_water_flow" /\ probe.stage = "result") =>
        /\ probe.out >= 0
        /\ probe.in.room = "cocina" => probe.out = 0 \/ probe.out \in 2000..8000
        /\ probe.in.room = "bano" => probe.out = 0 \/ probe.out \in 3000..12000

-----------------------------------------------------------------------------
(* Manual override *)

\* a cycle of mode manual is inside its loop over the batch
ManualLoop ==
    /\ variant = INTERACTIVO
    /\ mode = "manual"
    /\ InLoop

\* the batch has the shape simulate_house_once gives it
BatchShape ==
    /\ Len(readings) = Len(ROOMS)
    /\ \A n \in 1..Len(ROOMS) :
          /\ DOMAIN readings[n] = { "timestamp", "room", "temperature", "lights_on",
                                    "power_usage", "water_flow" }
          /\ readings[n].room = ROOMS[n]
          /\ readings[n].lights_on \in {0, 1}
          /\ readings[n].power_usage.n >= 0
          /\ readings[n].water_flow >= 0
          /\ readings[n].room \in {"salon", "dormitorio"} => readings[n].water_flow = 0

\* the call being made is call number k of Reading number i, as in mode auto
SameCallAsAuto ==
    /\ pc = "write"
    /\ nCalls = 4 * (i - 1) + (k - 1)
    /\ lastCall'.measurement = MeasurementOrder[k]
    /\ lastCall'.tags = << << "room", ROOMS[i] >> >>
    /\ lastCall'.fields = Metrics(readings[i])[k].fields

\* C16: in mode manual the batch of every cycle has the shape of a
\* synthesized one, one Reading per room in the order of ROOMS, each with
\* timestamp, room, temperature, lights_on in {0,1}, power_usage >= 0 and
\* water_flow >= 0, and water_flow = 0.0 for salon and dormitorio; and the
\* reporter issues for it the same 16 sink calls in the same order as in
\* mode auto: every cycle of mode manual leaves its loop with 16 calls made.
C16_ManualSameAsAuto ==
    /\ [](ManualLoop => BatchShape)
    /\ [][ManualLoop /\ nCalls' = nCalls + 1 => SameCallAsAuto]_vars
    /\ [][ManualLoop /\ ~InLoop' => nCalls' = 4 * Len(ROOMS)]_vars

-----------------------------------------------------------------------------
(* Diagnostics of the sink *)

\* C18: a write that reaches the POST logs a diagnostic exactly when the
\* response status is not 204 or the POST raises a RequestException of
\* requests, and logs nothing when the status is 204; a success status other
\* than 204, such as 200, is reported as an error.
C18_LogsExactlyOnFailure ==
    (probe.fn = "write_to_influx" /\ probe.stage = "result" /\ probe.out.posted) =>
        LET o == probe.out.outcome
        IN  /\ probe.out.logged <=>
                  \/ o.kind = "response" /\ o.status # 204
                  \/ o.kind = "exception" /\
                        o.exc \in {"ConnectionError", "Timeout", "MissingSchema"}
            /\ o = Response(204) => ~probe.out.logged
            /\ o = Response(200) => probe.out.logged

\* mapa_simulacion_casa, fully configured, got 200 for its POST and logged it
C18_Witness ==
    /\ probe.fn = "write_to_influx"
    /\ probe.stage = "result"
    /\ probe.in.v = MAPA
    /\ ~ConfigIncomplete(probe.in.c)
    /\ probe.out.posted
    /\ probe.out.outcome = Response(200)
    /\ probe.out.logged

-----------------------------------------------------------------------------
(* Source of a batch in the interactive variant *)

\* the batch in hand was synthesized, all of it
WhollySynthesized ==
    \E t \in CycleClock, ds \in CycleDraws :
        readings = simulate_house_once(INTERACTIVO, t, ds)

\* the batch in hand was built from the manual controls, all of it
WhollyManual == readings = build_manual_readings(manual, now)

\* C19: in the interactive variant the source of a cycle's batch is chosen
\* once, from the mode at the start of the cycle: the batch is synthesized as
\* a whole in mode auto and built from the manual controls as a whole in mode
\* manual, never a mixture; the user changes the mode or a control only
\* between two cycles, the handler of the change issues no sink write, and
\* the calls of a cycle carry the values of the batch built at its start.
C19_SourceChosenOnce ==
    /\ [](variant = INTERACTIVO /\ InLoop =>
            IF mode = "auto" THEN WhollySynthesized ELSE WhollyManual)
    /\ [][mode' # mode \/ manual' # manual =>
            /\ pc = "idle" /\ pc' = "idle"
            /\ UNCHANGED << readings, nCalls, nPosts, lastCall, pending >>]_vars
    /\ [][variant = INTERACTIVO /\ nCalls' = nCalls + 1 =>
            /\ InLoop
            /\ readings' = readings
            /\ lastCall'.fields = Metrics(readings[i])[k].fields]_vars

\* the user has dragged the water scale of cocina to 15.0 between two cycles
\* and the following manual cycle has written it
C19_Witness ==
    /\ variant = INTERACTIVO
    /\ mode = "manual"
    /\ manual["cocina"].water = 15000
    /\ InLoop
    /\ WhollyManual
    /\ lastCall.measurement = "water_flow"
    /\ lastCall.tags = << << "room", "cocina" >> >>
    /\ lastCall.fields = << << "value", FloatVal(15000) >> >>

-----------------------------------------------------------------------------
(* The timer of the GUI variants *)

\* an invocation of update_simulation is running
Running == pc \in {"synth", "print", "write", "visual", "resched"}

\* C20: in the GUI variants, from the construction of HouseGUI on, exactly
\* one invocation of update_simulation is either pending on the timer or
\* running; only the last step of a run schedules one, exactly one, only the
\* timer firing takes one off the timer, and no handler of the user
\* (on_mode_change, the commands of the checkbox and of the scales)
\* schedules, cancels or runs a cycle.
C20_OneUpdatePendingOrRunning ==
    /\ [](IsGUI(variant) => pending + (IF Running THEN 1 ELSE 0) = 1)
    /\ [][pending' > pending =>
            pc = "resched" /\ pc' = "idle" /\ pending' = pending + 1]_vars
    /\ [][pending' < pending =>
            pc = "idle" /\ pc' = "synth" /\ pending' = pending - 1]_vars
    /\ [][mode' # mode \/ manual' # manual => pending' = pending /\ pc' = pc]_vars

====
